---------------------------- MODULE Spec2Model ----------------------------
(***************************************************************************)
(* A model of the KDL lexer of danderson/go-kdl (lex.go, the last Go file  *)
(* carried in src/update_conformance.sh, lines 373-899).                   *)
(*                                                                         *)
(* Runes are integers (Unicode code points), eof is -1.  A Go string       *)
(* constant is the sequence of the elements `range` decodes from it; a raw *)
(* byte that is not valid UTF-8 (written \xNN in the source) is the        *)
(* negative number -NN.  The lexer goroutine (lex) and the consumer        *)
(* (Next) are two processes that meet on the unbuffered channel tokens.    *)
(***************************************************************************)
EXTENDS Integers, Sequences, FiniteSets, TLC

VARIABLES
    input,        \* the runes the bufio.Reader will deliver, in order
    l,            \* the lexer struct: r (as offset off), rs, peekrs, atEOF, lastWasSpace
    st,           \* the lexFn the loop of lex() runs next ("nil" ends the loop)
    pend,         \* channel sends the running lexFn still has to perform, in order
    prod,         \* the goroutine lex(): "run", "done" (returned), "crashed" (re-panicked)
    tokensClosed, \* close(l.tokens) has run
    closeClosed,  \* l.close has been closed
    cons,         \* the consumer: "idle", or "recv" (blocked in <-l.tokens)
    got,          \* the tokens Next() has returned so far
    produced,     \* history: the tokens for which the producer reached the select
    from          \* history: input offset at which the Any state last dispatched

vars == <<input, l, st, pend, prod, tokensClosed, closeClosed, cons, got, produced, from>>

(***************************************************************************)
(* Runes by name.                                                          *)
(***************************************************************************)
c == [bs |-> 8, tab |-> 9, lf |-> 10, ff |-> 12, cr |-> 13, sp |-> 32,
      dquote |-> 34, hash |-> 35, star |-> 42, plus |-> 43, comma |-> 44,
      minus |-> 45, dot |-> 46, slash |-> 47, d0 |-> 48, d1 |-> 49,
      d7 |-> 55, d9 |-> 57, semicolon |-> 59, lt |-> 60, equal |-> 61,
      gt |-> 62, A |-> 65, E |-> 69, F |-> 70, backslash |-> 92,
      underscore |-> 95, a |-> 97, b |-> 98, e |-> 101, f |-> 102,
      n |-> 110, o |-> 111, r |-> 114, t |-> 116, u |-> 117, x |-> 120,
      lbrace |-> 123, rbrace |-> 125, nel |-> 133, nbsp |-> 160,
      ls |-> 8232, ps |-> 8233, maxRune |-> 1114111,
      surrMin |-> 55296, surrMax |-> 57343, runeError |-> 65533,
      runeSelf |-> 128]

eof == -1

Last(s) == s[Len(s)]
Front(s) == SubSeq(s, 1, Len(s) - 1)
Range(s) == {s[i] : i \in 1..Len(s)}

(***************************************************************************)
(* Go library semantics the lexer relies on.                               *)
(***************************************************************************)
\* utf8.ValidRune
ValidRune(r) == (r >= 0 /\ r < c.surrMin) \/ (r > c.surrMax /\ r <= c.maxRune)

\* strings.IndexRune(s, r): only the sign of the result is used by the lexer,
\* so the result is the element index (0-based) or -1.
IndexRune(s, r) ==
    LET hits ==
          IF r >= 0 /\ r < c.runeSelf THEN {i \in 1..Len(s) : s[i] = r}
          ELSE IF r = c.runeError
               THEN {i \in 1..Len(s) : s[i] < 0 \/ s[i] = c.runeError}
          ELSE IF ~ValidRune(r) THEN {}
          ELSE {i \in 1..Len(s) : s[i] = r}
    IN  IF hits = {} THEN -1
        ELSE (CHOOSE i \in hits : \A j \in hits : i <= j) - 1

\* string(rs) for rs []rune: a rune that is no valid scalar becomes U+FFFD.
String(rs) == [i \in 1..Len(rs) |-> IF ValidRune(rs[i]) THEN rs[i] ELSE c.runeError]

(***************************************************************************)
(* Classifiers and string constants.                                       *)
(***************************************************************************)
spaces == <<9, 32, -160, 5760, 8192, 8193, 8194, 8195, 8196, 8197, 8198,
            8199, 8200, 8201, 8202, 8239, 8287, 12288>>

newline == <<13, 10, -133, 12, 8232, 8233>>

excluded == <<92, 47, 60, 62, 123, 125, 59, 61, 44, 34>>

identifierCharacter(r) ==
    IF r < 32 \/ r > c.maxRune THEN FALSE
    ELSE IF IndexRune(spaces, r) >= 0 \/ IndexRune(newline, r) >= 0 THEN FALSE
    ELSE r \notin Range(excluded)

digit(r) == r >= c.d0 /\ r <= c.d9

numberStart(r) == digit(r) \/ r = c.plus \/ r = c.minus

identifierStart(r) == identifierCharacter(r) /\ ~digit(r)

(***************************************************************************)
(* Tokens.                                                                 *)
(***************************************************************************)
nilErr == [fmt |-> "", arg |-> 0]

token(typ, str) == [typ |-> typ, err |-> nilErr, str |-> str]

errToken(fmt, arg) == [typ |-> "tokErr", err |-> [fmt |-> fmt, arg |-> arg], str |-> <<>>]

\* the zero value of token, which a receive from the closed channel yields
zeroToken == token("tokEOF", <<>>)

(***************************************************************************)
(* The rune source.                                                        *)
(***************************************************************************)
NewLexer == [off |-> 0, rs |-> <<>>, peekrs |-> <<>>, atEOF |-> FALSE,
             lastWasSpace |-> FALSE, panic |-> FALSE]

\* returns last consumed rune
last(lx) == IF Len(lx.rs) = 0 THEN -1 ELSE Last(lx.rs)

next(lx) ==
    IF Len(lx.peekrs) > 0
    THEN [l |-> [lx EXCEPT !.rs = Append(@, Last(lx.peekrs)),
                           !.peekrs = Front(@)],
          r |-> Last(lx.peekrs)]
    ELSE IF lx.atEOF THEN [l |-> lx, r |-> eof]
    ELSE IF lx.off >= Len(input)
         THEN [l |-> [lx EXCEPT !.atEOF = TRUE], r |-> eof]
    ELSE [l |-> [lx EXCEPT !.rs = Append(@, input[lx.off + 1]), !.off = @ + 1],
          r |-> input[lx.off + 1]]

\* backup without the test of atEOF
backupAtEOF(lx) ==
    IF Len(lx.rs) = 0 THEN [lx EXCEPT !.panic = TRUE]
    ELSE [lx EXCEPT !.peekrs = Append(@, Last(lx.rs)), !.rs = Front(@)]

backup(lx) ==
    IF lx.atEOF THEN lx
    ELSE IF Len(lx.rs) = 0 THEN [lx EXCEPT !.panic = TRUE]
    ELSE [lx EXCEPT !.peekrs = Append(@, Last(lx.rs)), !.rs = Front(@)]

\* a discard that also forgets that the last token was a Space
ignoreResetsFlag(lx) == [lx EXCEPT !.rs = <<>>, !.lastWasSpace = FALSE]

peek(lx) == LET nx == next(lx) IN [l |-> backup(nx.l), r |-> nx.r]

ignore(lx) == [lx EXCEPT !.rs = <<>>]

accept(lx, valid) ==
    LET nx == next(lx)
    IN  IF IndexRune(valid, nx.r) >= 0 THEN [l |-> nx.l, r |-> TRUE]
        ELSE [l |-> backup(nx.l), r |-> FALSE]

acceptNewline(lx) ==
    LET nx == next(lx)
    IN  IF nx.r = eof THEN [l |-> nx.l, r |-> FALSE]
        ELSE IF nx.r = c.cr
             THEN LET p == peek(nx.l)
                  IN  IF p.r = c.lf THEN [l |-> next(p.l).l, r |-> TRUE]
                      ELSE [l |-> p.l, r |-> TRUE]
        ELSE IF IndexRune(newline, nx.r) >= 0 THEN [l |-> nx.l, r |-> TRUE]
        ELSE [l |-> nx.l, r |-> FALSE]

RECURSIVE acceptRun(_, _)
acceptRun(lx, valid) ==
    LET nx == next(lx)
    IN  IF IndexRune(valid, nx.r) >= 0 THEN acceptRun(nx.l, valid)
        ELSE backup(nx.l)

RECURSIVE until(_, _)
until(lx, invalid) ==
    LET p == peek(lx)
    IN  IF IndexRune(invalid, p.r) < 0
        THEN LET q == peek(p.l)
             IN  IF q.r # eof THEN until(next(q.l).l, invalid) ELSE q.l
        ELSE p.l

\* the logical position: runes read from the reader and not pushed back
Consumed(lx) == lx.off - Len(lx.peekrs)

(***************************************************************************)
(* emit and err up to their select: the token to hand off (if any) and     *)
(* whether rs is cleared once the send has happened.                       *)
(***************************************************************************)
\* emit without the coalescing of Space tokens
emitNoCoalesce(lx, t) ==
    [l |-> [lx EXCEPT !.lastWasSpace = (t.typ = "tokSpace")],
     out |-> <<[tok |-> t, clear |-> TRUE]>>]

emit(lx, t) ==
    IF t.typ = "tokSpace" /\ lx.lastWasSpace
    THEN [l |-> ignore(lx), out |-> <<>>]
    ELSE [l |-> [lx EXCEPT !.lastWasSpace = (t.typ = "tokSpace")],
          out |-> <<[tok |-> t, clear |-> TRUE]>>]

\* err whose caller's state machine goes on: it returns lexAny, not nil
errGoesOn(lx, fmt, arg) ==
    [l |-> [lx EXCEPT !.lastWasSpace = FALSE],
     out |-> <<[tok |-> errToken(fmt, arg), clear |-> FALSE]>>,
     st |-> "lexAny"]

err(lx, fmt, arg) ==
    [l |-> [lx EXCEPT !.lastWasSpace = FALSE],
     out |-> <<[tok |-> errToken(fmt, arg), clear |-> FALSE]>>,
     st |-> "nil"]

\* a lexFn that emits t and returns the state nextSt
emitThen(lx, t, nextSt) ==
    LET em == emit(lx, t) IN [l |-> em.l, out |-> em.out, st |-> nextSt]

goto(lx, nextSt) == [l |-> lx, out |-> <<>>, st |-> nextSt]

(***************************************************************************)
(* The lexing states.  Each returns the lexer after the function's own     *)
(* code, the sends it performs (out) and the lexFn it returns (st).        *)
(***************************************************************************)
lexAny(lx) ==
    LET p == peek(lx)
        r == p.r
    IN  IF r = eof THEN goto(p.l, "nil")
        ELSE IF numberStart(r) THEN goto(p.l, "lexNumber")
        ELSE IF identifierStart(r) THEN goto(p.l, "lexIdentifier")
        ELSE IF r = c.dquote THEN goto(p.l, "lexString")
        ELSE IF r = c.equal
             THEN emitThen(next(p.l).l, token("tokEqual", <<>>), "lexAny")
        ELSE IF r = c.lbrace
             THEN emitThen(next(p.l).l, token("tokOpenBracket", <<>>), "lexAny")
        ELSE IF r = c.rbrace
             THEN emitThen(next(p.l).l, token("tokCloseBracket", <<>>), "lexAny")
        ELSE IF r = c.semicolon
             THEN emitThen(next(p.l).l, token("tokSemicolon", <<>>), "lexAny")
        ELSE IF r = c.slash THEN goto(p.l, "lexComment")
        ELSE IF IndexRune(spaces, r) >= 0 THEN goto(p.l, "lexSpace")
        ELSE IF IndexRune(newline, r) >= 0 THEN goto(p.l, "lexNewline")
        ELSE err(p.l, "don't know how to lex %q", r)

hexDigits == <<48, 49, 50, 51, 52, 53, 54, 55, 56, 57, 97, 98, 99, 100, 101,
               102, 65, 66, 67, 68, 69, 70, 95>>
binDigits == <<48, 49, 95>>
octDigits == <<48, 49, 50, 51, 52, 53, 54, 55, 95>>
digits == <<48, 49, 50, 51, 52, 53, 54, 55, 56, 57, 95>>

\* lexNumber from "Full decimal/float" on
lexNumberDecimal(lx) ==
    LET l1 == acceptRun(lx, digits)
        dt == accept(l1, <<c.dot>>)
        fl == dt.r
        l2 == IF dt.r THEN acceptRun(dt.l, digits) ELSE dt.l
        ex == accept(l2, <<c.e, c.E>>)
        l3 == IF ex.r THEN acceptRun(accept(ex.l, <<c.plus, c.minus>>).l, digits)
              ELSE ex.l
    IN  IF fl THEN emitThen(l3, token("tokFloat", String(l3.rs)), "lexSpace")
        ELSE emitThen(l3, token("tokInt", String(l3.rs)), "lexSpace")

lexNumber(lx) ==
    LET l1 == accept(lx, <<c.plus, c.minus>>).l
        pk == peek(l1)
    IN  IF last(l1) = c.plus /\ ~digit(pk.r) THEN goto(pk.l, "lexIdentifier")
        ELSE
          LET l2 == IF last(l1) = c.plus THEN pk.l ELSE l1
              z  == accept(l2, <<c.d0>>)
          IN  IF z.r
              THEN LET nx == next(z.l)
                   IN  IF nx.r = eof
                       THEN emitThen(nx.l, token("tokInt", String(nx.l.rs)), "nil")
                       ELSE IF nx.r = c.x
                       THEN LET l3 == acceptRun(nx.l, hexDigits)
                            IN  emitThen(l3, token("tokInt", String(l3.rs)), "lexSpace")
                       ELSE IF nx.r = c.b
                       THEN LET l3 == acceptRun(nx.l, binDigits)
                            IN  emitThen(l3, token("tokInt", String(l3.rs)), "lexSpace")
                       ELSE IF nx.r = c.o
                       THEN LET l3 == acceptRun(nx.l, octDigits)
                            IN  emitThen(l3, token("tokInt", String(l3.rs)), "lexSpace")
                       ELSE lexNumberDecimal(backup(nx.l))
              ELSE lexNumberDecimal(z.l)

\* the line comment case without the test of atEOF (as in the older lexer,
\* lines 303-305 of the same file)
lexCommentLineNoEOF(lx) == goto(ignore(until(lx, newline)), "lexNewline")

\* the line comment case of lexComment, after "//"
lexCommentLine(lx) ==
    LET l1 == ignore(until(lx, newline))
    IN  IF l1.atEOF THEN goto(l1, "nil") ELSE goto(l1, "lexNewline")

\* the loop on depth without the depth++ of a nested opener
RECURSIVE lexCommentBlockNoNest(_, _)
lexCommentBlockNoNest(lx, depth) ==
    IF depth <= 0 THEN goto(ignore(lx), "lexSpace")
    ELSE
      LET nx == next(until(lx, <<c.star, c.slash>>))
      IN  IF nx.r = eof THEN err(nx.l, "EOF during multiline comment", 0)
          ELSE IF nx.r = c.star
          THEN LET p == peek(nx.l)
               IN  IF p.r # c.slash THEN lexCommentBlockNoNest(p.l, depth)
                   ELSE lexCommentBlockNoNest(next(p.l).l, depth - 1)
          ELSE lexCommentBlockNoNest(nx.l, depth)

\* the block comment case of lexComment, after "/*": the loop on depth
RECURSIVE lexCommentBlock(_, _)
lexCommentBlock(lx, depth) ==
    IF depth <= 0 THEN goto(ignore(lx), "lexSpace")
    ELSE
      LET nx == next(until(lx, <<c.star, c.slash>>))
      IN  IF nx.r = eof THEN err(nx.l, "EOF during multiline comment", 0)
          ELSE IF nx.r = c.star
          THEN LET p == peek(nx.l)
               IN  IF p.r # c.slash THEN lexCommentBlock(p.l, depth)
                   ELSE lexCommentBlock(next(p.l).l, depth - 1)
          ELSE IF nx.r = c.slash
          THEN LET p == peek(nx.l)
               IN  IF p.r # c.star THEN lexCommentBlock(p.l, depth)
                   ELSE lexCommentBlock(next(p.l).l, depth + 1)
          ELSE lexCommentBlock(nx.l, depth)

lexComment(lx) ==
    LET n1 == next(lx)
        n2 == next(n1.l)
    IN  IF n1.r # c.slash THEN goto([n1.l EXCEPT !.panic = TRUE], "nil")
        ELSE IF n2.r = c.slash THEN lexCommentLine(n2.l)
        ELSE IF n2.r = c.star THEN lexCommentBlock(n2.l, 1)
        ELSE IF n2.r = c.minus
             THEN emitThen(n2.l, token("tokIgnoreNode", <<>>), "lexSpace")
        ELSE err(n2.l, "unknown kind of comment \"/%s\"", n2.r)

\* the loop "for identifierCharacter(l.next()) {}" and the backup after it
RECURSIVE identifierRun(_)
identifierRun(lx) ==
    LET nx == next(lx)
    IN  IF identifierCharacter(nx.r) THEN identifierRun(nx.l) ELSE backup(nx.l)

lexIdentifier(lx) ==
    LET a == accept(lx, <<c.r>>)
    IN  IF a.r
        THEN LET p == peek(a.l)
             IN  IF p.r = c.hash \/ p.r = c.dquote THEN goto(p.l, "lexRawString")
                 ELSE LET l1 == identifierRun(p.l)
                      IN  emitThen(l1, token("tokIdentifier", String(l1.rs)), "lexAny")
        ELSE LET nx == next(a.l)
             IN  IF ~identifierStart(nx.r)
                 THEN err(nx.l, "unexpected rune %q at start of identifier", nx.r)
                 ELSE LET l1 == identifierRun(nx.l)
                      IN  emitThen(l1, token("tokIdentifier", String(l1.rs)), "lexAny")

\* rs[lo:hi] (Go slice expression, 0-based, hi exclusive) and whether it is in bounds
sliceOK(rs, lo, hi) == 0 <= lo /\ lo <= hi /\ hi <= Len(rs)
slice(rs, lo, hi) == SubSeq(rs, lo + 1, hi)

\* emit(token{typ: tokString, str: string(l.rs[lo:hi])}) and return lexAny
emitString(lx, lo, hi) ==
    IF ~sliceOK(lx.rs, lo, hi) THEN goto([lx EXCEPT !.panic = TRUE], "nil")
    ELSE emitThen(lx, token("tokString", String(slice(lx.rs, lo, hi))), "lexAny")

hexLimit == 6

\* the loop parseHex of lexString: ok is FALSE when it returned l.err(...)
RECURSIVE parseHex(_, _, _)
parseHex(lx, i, replace) ==
    IF i >= hexLimit THEN [l |-> lx, ok |-> TRUE, replace |-> replace, r |-> 0, fmt |-> ""]
    ELSE
      LET nx == next(lx)
          r  == nx.r
      IN  IF r >= c.d0 /\ r <= c.d9
          THEN parseHex(nx.l, i + 1, replace * 16 + (r - c.d0))
          ELSE IF r >= c.a /\ r <= c.f
          THEN parseHex(nx.l, i + 1, replace * 16 + (r - c.a + 10))
          ELSE IF r >= c.A /\ r <= c.F
          THEN parseHex(nx.l, i + 1, replace * 16 + (r - c.A + 10))
          ELSE IF r = c.rbrace
          THEN IF i = 0
               THEN [l |-> nx.l, ok |-> FALSE, replace |-> replace, r |-> 0,
                     fmt |-> "no hex in \\u escape sequence"]
               ELSE [l |-> nx.l, ok |-> TRUE, replace |-> replace, r |-> 0, fmt |-> ""]
          ELSE [l |-> nx.l, ok |-> FALSE, replace |-> replace, r |-> r,
                fmt |-> "unexpected hex in \\u escape sequence, got %q"]

\* l.rs = append(l.rs[:replacePoint], replace)
replaceEscape(lx, replacePoint, replace) ==
    [lx EXCEPT !.rs = Append(SubSeq(lx.rs, 1, replacePoint), replace)]

\* the for loop of lexString
RECURSIVE lexStringLoop(_)
lexStringLoop(lx) ==
    LET nx == next(until(lx, <<c.dquote, c.backslash>>))
    IN  IF nx.r = eof THEN err(nx.l, "EOF during string", 0)
        ELSE IF nx.r = c.dquote THEN emitString(nx.l, 1, Len(nx.l.rs) - 1)
        ELSE IF nx.r = c.backslash
        THEN LET replacePoint == Len(nx.l.rs) - 1
                 es == next(nx.l)
                 r  == es.r
             IN  IF r = c.n THEN lexStringLoop(replaceEscape(es.l, replacePoint, c.lf))
                 ELSE IF r = c.r THEN lexStringLoop(replaceEscape(es.l, replacePoint, c.cr))
                 ELSE IF r = c.t THEN lexStringLoop(replaceEscape(es.l, replacePoint, c.tab))
                 ELSE IF r = c.backslash
                      THEN lexStringLoop(replaceEscape(es.l, replacePoint, c.backslash))
                 ELSE IF r = c.slash
                      THEN lexStringLoop(replaceEscape(es.l, replacePoint, c.slash))
                 ELSE IF r = c.dquote
                      THEN lexStringLoop(replaceEscape(es.l, replacePoint, c.dquote))
                 ELSE IF r = c.b THEN lexStringLoop(replaceEscape(es.l, replacePoint, c.bs))
                 ELSE IF r = c.f THEN lexStringLoop(replaceEscape(es.l, replacePoint, c.ff))
                 ELSE IF r = c.u
                 THEN LET ob == next(es.l)
                      IN  IF ob.r # c.lbrace
                          THEN err(ob.l, "expected open bracket after \\u, got %q", r)
                          ELSE LET ph == parseHex(ob.l, 0, 0)
                               IN  IF ~ph.ok THEN err(ph.l, ph.fmt, ph.r)
                                   ELSE lexStringLoop(
                                          replaceEscape(ph.l, replacePoint, ph.replace))
                 ELSE err(es.l, "unknown escape sequence \\%s", r)
        ELSE lexStringLoop(nx.l)

lexString(lx) == lexStringLoop(accept(lx, <<c.dquote>>).l)

\* "for l.next() == '#' { hashes++ }"
RECURSIVE countHashes(_, _)
countHashes(lx, hashes) ==
    LET nx == next(lx)
    IN  IF nx.r = c.hash THEN countHashes(nx.l, hashes + 1)
        ELSE [l |-> nx.l, hashes |-> hashes]

\* "for i := 0; i < hashes; i++ { if !l.accept("#") { continue findEnd } }"
RECURSIVE closingHashes(_, _, _)
closingHashes(lx, i, hashes) ==
    IF i >= hashes THEN [l |-> lx, r |-> TRUE]
    ELSE LET a == accept(lx, <<c.hash>>)
         IN  IF ~a.r THEN [l |-> a.l, r |-> FALSE]
             ELSE closingHashes(a.l, i + 1, hashes)

\* the loop findEnd of lexRawString
RECURSIVE findEnd(_, _)
findEnd(lx, hashes) ==
    LET nx == next(until(lx, <<c.dquote>>))
    IN  IF nx.r # c.dquote THEN err(nx.l, "expected dquote, got %q", nx.r)
        ELSE LET ch == closingHashes(nx.l, 0, hashes)
             IN  IF ~ch.r THEN findEnd(ch.l, hashes)
                 ELSE emitString(ch.l, hashes + 2, Len(ch.l.rs) - hashes - 1)

lexRawString(lx) ==
    LET h == countHashes(lx, 0)
    IN  IF last(h.l) # c.dquote THEN err(h.l, "expected dquote, got %q", last(h.l))
        ELSE findEnd(h.l, h.hashes)

\* lexSpace returning itself, not lexAny, when no whitespace is ahead
lexSpaceLoops(lx) ==
    LET a == accept(lx, spaces)
    IN  IF ~a.r THEN goto(a.l, "lexSpace")
        ELSE
          LET p == peek(acceptRun(a.l, spaces))
          IN  IF p.r = eof THEN emitThen(p.l, token("tokSpace", <<>>), "nil")
              ELSE IF p.r = c.backslash
              THEN LET p2 == peek(acceptRun(next(p.l).l, spaces))
                       p3 == peek(next(p2.l).l)
                       l4 == IF p2.r = c.slash THEN until(p3.l, newline) ELSE p2.l
                       an == acceptNewline(l4)
                   IN  IF p2.r = c.slash /\ p3.r # c.slash
                       THEN err(p3.l, "unexpected rune %q in newline continuation", p3.r)
                       ELSE IF ~an.r
                       THEN LET pk == peek(an.l)
                            IN  err(pk.l, "unexpected rune %q in newline continuation", pk.r)
                       ELSE goto(an.l, "lexSpace")
              ELSE emitThen(p.l, token("tokSpace", <<>>), "lexAny")

lexSpace(lx) ==
    LET a == accept(lx, spaces)
    IN  IF ~a.r THEN goto(a.l, "lexAny")
        ELSE
          LET p == peek(acceptRun(a.l, spaces))
          IN  IF p.r = eof THEN emitThen(p.l, token("tokSpace", <<>>), "nil")
              ELSE IF p.r = c.backslash
              THEN LET p2 == peek(acceptRun(next(p.l).l, spaces))
                       p3 == peek(next(p2.l).l)
                       l4 == IF p2.r = c.slash THEN until(p3.l, newline) ELSE p2.l
                       an == acceptNewline(l4)
                   IN  IF p2.r = c.slash /\ p3.r # c.slash
                       THEN err(p3.l, "unexpected rune %q in newline continuation", p3.r)
                       ELSE IF ~an.r
                       THEN LET pk == peek(an.l)
                            IN  err(pk.l, "unexpected rune %q in newline continuation", pk.r)
                       ELSE goto(an.l, "lexSpace")
              ELSE emitThen(p.l, token("tokSpace", <<>>), "lexAny")

lexNewline(lx) ==
    LET an == acceptNewline(lx)
    IN  IF ~an.r
        THEN LET er == err(an.l, "tried to lex newline when not at newline", 0)
                 em == emit(er.l, token("tokNewline", <<>>))
             IN  [l |-> em.l, out |-> er.out \o em.out, st |-> "lexAny"]
        ELSE emitThen(an.l, token("tokNewline", <<>>), "lexAny")

(***************************************************************************)
(* Inputs.                                                                 *)
(***************************************************************************)
MaxLen == 4
MaxWords == 4
MaxNumLen == 3
MaxHex == 7
MaxPulls == 6

SeqsUpTo(A, k) == UNION {[1..j -> A] : j \in 0..k}

RECURSIVE Flatten(_)
Flatten(ws) == IF ws = <<>> THEN <<>> ELSE Head(ws) \o Flatten(Tail(ws))

\* whitespace, line continuations, comments and newlines around a number
LayoutWords == {<<c.sp>>, <<c.backslash, c.lf>>, <<c.slash, c.star, c.star, c.slash>>,
                <<c.slash, c.slash>>, <<c.lf>>, <<c.d1>>}
LayoutInputs == {Flatten(ws) : ws \in SeqsUpTo(LayoutWords, MaxWords)}

\* numeric literals
NumberRunes == {c.plus, c.minus, c.d0, c.d1, c.x, c.dot, c.e}
NumberInputs == SeqsUpTo(NumberRunes, MaxNumLen)

\* identifiers, signs and raw strings
IdentifierRunes == {c.plus, c.r, c.hash, c.dquote, c.a}
IdentifierInputs == SeqsUpTo(IdentifierRunes, MaxLen)

\* quoted strings with escapes
StringRunes == {c.a, c.backslash, c.n, c.dquote, c.sp}
StringInputs == {<<c.dquote>> \o s : s \in SeqsUpTo(StringRunes, MaxLen)}

\* quoted strings with one \u{...} escape of 0..MaxHex hex digits
HexRunes == {c.d0, c.d1, c.f, c.F}
HexRuns == SeqsUpTo(HexRunes, 2) \cup {[i \in 1..k |-> h] : k \in 3..MaxHex, h \in HexRunes}
HexTails == {<<c.rbrace, c.dquote>>, <<c.dquote>>, <<c.rbrace>>, <<>>,
             <<c.rbrace, c.a, c.dquote>>, <<c.x, c.rbrace, c.dquote>>}
HexInputs == {<<c.dquote, c.backslash, c.u, c.lbrace>> \o h \o t : h \in HexRuns, t \in HexTails}
             \cup {<<c.dquote, c.backslash, c.u>> \o t : t \in HexTails}

\* line comments and the runes of (or near) the newline set
MaxNewlineLen == 3
NewlineRunes == {c.cr, c.lf, c.ff, c.nel, c.nbsp, c.runeError, c.slash}
NewlineInputs == SeqsUpTo(NewlineRunes, MaxNewlineLen)

\* raw strings, at the start of the input, after a line continuation and
\* after a sign
MaxRawLen == 5
RawRunes == {c.hash, c.dquote, c.a}
RawPrefixes == {<<>>, <<c.sp, c.backslash, c.lf>>, <<c.plus>>}
RawInputs == {p \o <<c.r>> \o s : p \in RawPrefixes, s \in SeqsUpTo(RawRunes, MaxRawLen)}

\* block comments: "/*" and then stars, slashes and letters, deep enough for
\* a comment nested in a comment
MaxBlockLen == 6
BlockRunes == {c.slash, c.star, c.a}
BlockInputs == {<<c.slash, c.star>> \o s : s \in SeqsUpTo(BlockRunes, MaxBlockLen)}

Inputs == LayoutInputs \cup NumberInputs \cup IdentifierInputs \cup StringInputs
          \cup HexInputs \cup NewlineInputs \cup RawInputs \cup BlockInputs

(***************************************************************************)
(* The two processes.                                                      *)
(***************************************************************************)
Init ==
    /\ input \in Inputs
    /\ l = NewLexer
    /\ st = "lexAny"
    /\ pend = <<>>
    /\ prod = "run"
    /\ tokensClosed = FALSE
    /\ closeClosed = FALSE
    /\ cons = "idle"
    /\ got = <<>>
    /\ produced = <<>>
    /\ from = 0

\* what the history keeps of a send the producer has reached: the token and
\* the input span (start, to] consumed from the last dispatch of Any to the send
Reached(p, start, lx) == [tok |-> p.tok, from |-> start, to |-> Consumed(lx)]

\* one iteration "st = st()" of the loop of lex(), up to the first select of
\* the lexFn (or to its return); a panic other than lexClosed ends the program
Run(name, res, start) ==
    /\ prod = "run"
    /\ pend = <<>>
    /\ st = name
    /\ l' = res.l
    /\ IF res.l.panic
       THEN /\ prod' = "crashed"
            /\ tokensClosed' = TRUE
            /\ UNCHANGED <<st, pend, produced>>
       ELSE /\ prod' = prod
            /\ st' = res.st
            /\ pend' = res.out
            /\ tokensClosed' = tokensClosed
            /\ produced' = IF res.out = <<>> THEN produced
                           ELSE Append(produced, Reached(Head(res.out), start, res.l))
    /\ from' = start
    /\ UNCHANGED <<input, closeClosed, cons, got>>

LexAny == Run("lexAny", lexAny(l), Consumed(l))

LexNumber == Run("lexNumber", lexNumber(l), from)

LexIdentifier == Run("lexIdentifier", lexIdentifier(l), from)

LexString == Run("lexString", lexString(l), from)

LexRawString == Run("lexRawString", lexRawString(l), from)

LexComment == Run("lexComment", lexComment(l), from)

LexSpace == Run("lexSpace", lexSpace(l), from)

LexNewline == Run("lexNewline", lexNewline(l), from)

\* lex() returning without the deferred close(l.tokens)
LexReturnNoClose ==
    /\ prod = "run"
    /\ pend = <<>>
    /\ st = "nil"
    /\ prod' = "done"
    /\ UNCHANGED <<input, l, st, pend, tokensClosed, closeClosed, cons, got, produced, from>>

\* the loop of lex() ends on a nil state: the deferred close(l.tokens)
LexReturn ==
    /\ prod = "run"
    /\ pend = <<>>
    /\ st = "nil"
    /\ prod' = "done"
    /\ tokensClosed' = TRUE
    /\ UNCHANGED <<input, l, st, pend, closeClosed, cons, got, produced, from>>

\* Next() starts: the consumer blocks in <-l.tokens
NextCall ==
    /\ prod # "crashed"
    /\ cons = "idle"
    /\ Len(got) < MaxPulls
    /\ cons' = "recv"
    /\ UNCHANGED <<input, l, st, pend, prod, tokensClosed, closeClosed, got, produced, from>>

\* a send that does not wait for a receiver (a select with a default case):
\* the token is dropped
SendNoReceiver ==
    /\ prod = "run"
    /\ pend # <<>>
    /\ pend' = Tail(pend)
    /\ l' = IF Head(pend).clear THEN [l EXCEPT !.rs = <<>>] ELSE l
    /\ produced' = IF Tail(pend) = <<>> THEN produced
                   ELSE Append(produced, Reached(Head(Tail(pend)), from, l))
    /\ UNCHANGED <<input, st, prod, tokensClosed, closeClosed, cons, got, from>>

\* the case "l.tokens <- t" of the select of emit and err, meeting a receiver
Send ==
    /\ prod = "run"
    /\ pend # <<>>
    /\ cons = "recv"
    /\ got' = Append(got, Head(pend).tok)
    /\ cons' = "idle"
    /\ pend' = Tail(pend)
    /\ l' = IF Head(pend).clear THEN [l EXCEPT !.rs = <<>>] ELSE l
    /\ produced' = IF Tail(pend) = <<>> THEN produced
                   ELSE Append(produced, Reached(Head(Tail(pend)), from, l))
    /\ UNCHANGED <<input, st, prod, tokensClosed, closeClosed, from>>

\* the case "<-l.close" of the select: panic(lexClosed), recovered in lex()
\* after the deferred close(l.tokens)
Abort ==
    /\ prod = "run"
    /\ pend # <<>>
    /\ closeClosed
    /\ pend' = <<>>
    /\ prod' = "done"
    /\ tokensClosed' = TRUE
    /\ UNCHANGED <<input, l, st, closeClosed, cons, got, produced, from>>

\* Next() on the closed channel: the zero token
RecvClosed ==
    /\ prod # "crashed"
    /\ cons = "recv"
    /\ tokensClosed
    /\ got' = Append(got, zeroToken)
    /\ cons' = "idle"
    /\ UNCHANGED <<input, l, st, pend, prod, tokensClosed, closeClosed, produced, from>>

\* the shutdown request: close(l.close)
Close ==
    /\ prod # "crashed"
    /\ ~closeClosed
    /\ closeClosed' = TRUE
    /\ UNCHANGED <<input, l, st, pend, prod, tokensClosed, cons, got, produced, from>>

Next ==
    \/ LexAny
    \/ LexNumber
    \/ LexIdentifier
    \/ LexString
    \/ LexRawString
    \/ LexComment
    \/ LexSpace
    \/ LexNewline
    \/ LexReturn
    \/ NextCall
    \/ Send
    \/ Abort
    \/ RecvClosed
    \/ Close

Spec == Init /\ [][Next]_vars

\* the inputs of the runs checked for termination: a few lexemes of every
\* kind, one after the other
MaxLiveWords == 2
LiveWords == {<<c.sp>>, <<c.backslash, c.lf>>, <<c.slash, c.star, c.star, c.slash>>,
              <<c.slash, c.slash>>, <<c.lf>>, <<c.d1>>, <<c.a>>, <<c.plus>>,
              <<c.dquote, c.a, c.dquote>>, <<c.r, c.hash, c.dquote, c.dquote, c.hash>>,
              <<c.dquote>>}
LiveInputs == {Flatten(ws) : ws \in SeqsUpTo(LiveWords, MaxLiveWords)}

LiveInit ==
    /\ input \in LiveInputs
    /\ l = NewLexer
    /\ st = "lexAny"
    /\ pend = <<>>
    /\ prod = "run"
    /\ tokensClosed = FALSE
    /\ closeClosed = FALSE
    /\ cons = "idle"
    /\ got = <<>>
    /\ produced = <<>>
    /\ from = 0

\* a step of the producer's state machine
LexStep ==
    \/ LexAny
    \/ LexNumber
    \/ LexIdentifier
    \/ LexString
    \/ LexRawString
    \/ LexComment
    \/ LexSpace
    \/ LexNewline

\* what the state function about to run returns: "st()" in the loop of lex()
StepResult ==
    CASE st = "lexAny" -> lexAny(l)
      [] st = "lexNumber" -> lexNumber(l)
      [] st = "lexIdentifier" -> lexIdentifier(l)
      [] st = "lexString" -> lexString(l)
      [] st = "lexRawString" -> lexRawString(l)
      [] st = "lexComment" -> lexComment(l)
      [] st = "lexSpace" -> lexSpace(l)
      [] st = "lexNewline" -> lexNewline(l)

\* the enabling condition of <<LexStep>>_vars, written out: the loop of lex()
\* is at a state function whose run changes the lexer, the state or the
\* pending sends (a state function that returned itself with nothing read
\* would spin, and is not a step)
LexCanStep ==
    /\ prod = "run"
    /\ pend = <<>>
    /\ st # "nil"
    /\ StepResult # [l |-> l, out |-> <<>>, st |-> st]

\* The goroutine lex() is scheduled while it can run (weak fairness of
\* LexStep, its enabling condition written as LexCanStep, and of LexReturn),
\* a send that has its receiver completes (or the select takes the shutdown
\* case), and the consumer keeps pulling: it calls Next again and again, and
\* a receive from the closed channel returns.
FairSpec ==
    /\ LiveInit /\ [][Next]_vars
    /\ ([]<>(~LexCanStep) \/ []<><<LexStep>>_vars)
    /\ WF_vars(LexReturn)
    /\ WF_vars(Send \/ Abort)
    /\ WF_vars(NextCall)
    /\ WF_vars(RecvClosed)

(***************************************************************************)
(* Properties.                                                             *)
(***************************************************************************)
Terminal == {"tokEOF", "tokErr"}

\* the tokens the consumer received from the producer (a receive from the
\* closed channel yields the zero token, which the producer never sends)
Delivered == SelectSeq(got, LAMBDA t : t # zeroToken)

\* C1 as stated: once an Error token has been returned by Next, every later
\* Next returns that same Error token.
C1_ErrorSticky ==
    \A i \in 1..Len(got) :
        got[i].typ = "tokErr" => \A j \in i..Len(got) : got[j] = got[i]

\* C1 amended: once an Error token has been returned by Next, every later
\* Next returns the End token (the zero token of the closed channel); the
\* Error token itself is returned once.
C1_ErrorThenEnd ==
    \A i \in 1..Len(got) :
        got[i].typ = "tokErr" => \A j \in (i + 1)..Len(got) : got[j] = zeroToken

C1_Witness ==
    \E i \in 1..Len(got) :
        /\ got[i].typ = "tokErr"
        /\ Len(got) >= i + 2
        /\ got[i + 1] = zeroToken
        /\ got[i + 2] = zeroToken

\* C2: a Next returns End only once the producer has exited and closed the
\* channel; from then on every Next returns End, and a Next that is waiting
\* can always complete (it never blocks).
C2_EndSticky ==
    /\ \A i \in 1..Len(got) :
          got[i].typ = "tokEOF" =>
             /\ prod # "run"
             /\ \A j \in i..Len(got) : got[j] = zeroToken
    /\ prod = "done" => tokensClosed
    /\ (prod = "done" /\ cons = "recv") => ENABLED RecvClosed

C2_Witness ==
    /\ l.atEOF
    /\ ~closeClosed
    /\ Len(got) >= 3
    /\ got[Len(got)] = zeroToken
    /\ got[Len(got) - 1] = zeroToken
    /\ got[Len(got) - 2].typ \notin Terminal

\* C3: at most one Error token is delivered, nothing but End follows it, and
\* a lexing state that reports an error performs no further send and returns
\* nil; the Newline state is never entered away from a newline.
C3_SingleError ==
    /\ Cardinality({i \in 1..Len(got) : got[i].typ = "tokErr"}) <= 1
    /\ \A i \in 1..Len(got) :
          got[i].typ = "tokErr" => \A j \in (i + 1)..Len(got) : got[j].typ = "tokEOF"
    /\ \A i \in 1..Len(produced) : produced[i].tok.typ = "tokErr" => i = Len(produced)
    /\ \A i \in 1..Len(pend) : pend[i].tok.typ = "tokErr" => (i = Len(pend) /\ st = "nil")
    /\ (prod = "run" /\ st = "lexNewline" /\ pend = <<>>) => acceptNewline(l).r

C3_Witness ==
    \E i \in 2..Len(got) :
        /\ got[i].typ = "tokErr"
        /\ got[i - 1].typ \notin Terminal
        /\ Len(got) > i
        /\ prod = "done"

\* C4 as stated: once shutdown has been requested (l.close is closed), no
\* further token is delivered: a Next then returns nothing but End.
C4_NoTokenAfterShutdown ==
    [][closeClosed => (got' = got \/ got' = Append(got, zeroToken))]_vars

\* C5: the tokens received are a prefix of the tokens the producer reached
\* a handoff with, in the same order, and at most one token the producer
\* reached a handoff with is undelivered.
C5_PrefixOfProduced ==
    /\ Len(Delivered) <= Len(produced)
    /\ Len(produced) <= Len(Delivered) + 1
    /\ \A i \in 1..Len(Delivered) : Delivered[i] = produced[i].tok
    /\ Len(pend) <= 1

C5_Witness ==
    /\ Len(Delivered) >= 2
    /\ Len(produced) = Len(Delivered) + 1
    /\ pend # <<>>
    /\ cons = "idle"

\* C6: no two consecutive tokens, reached or delivered, are both Space.
C6_NoTwoSpaces ==
    /\ \A i \in 1..(Len(got) - 1) :
          ~(got[i].typ = "tokSpace" /\ got[i + 1].typ = "tokSpace")
    /\ \A i \in 1..(Len(produced) - 1) :
          ~(produced[i].tok.typ = "tokSpace" /\ produced[i + 1].tok.typ = "tokSpace")

\* two whitespace runs separated only by a discarded block comment, lexed to
\* the end with a single Space token
C6_Witness ==
    /\ input = <<c.sp, c.slash, c.star, c.star, c.slash, c.sp, c.d1>>
    /\ prod = "done"
    /\ got = <<token("tokSpace", <<>>), token("tokInt", <<c.d1>>), zeroToken>>

\* the source text of the i-th token the producer reached
Source(i) == SubSeq(input, produced[i].from + 1, produced[i].to)

Numeric == {"tokInt", "tokFloat"}

\* C7 as stated: the text of an Integer or Float token is exactly the source
\* scalars of its literal, whatever precedes the literal.
C7_NumberTextVerbatim ==
    \A i \in 1..Len(produced) :
        produced[i].tok.typ \in Numeric => produced[i].tok.str = Source(i)

\* s without a leading sign
Unsigned(s) == IF s # <<>> /\ s[1] \in {c.plus, c.minus} THEN Tail(s) ELSE s

RadixPrefixed(s) ==
    LET u == Unsigned(s)
    IN  Len(u) >= 2 /\ u[1] = c.d0 /\ u[2] \in {c.x, c.b, c.o}

\* a literal that starts (after its sign) and ends with a digit
DigitsAtBothEnds(s) ==
    LET u == Unsigned(s) IN u # <<>> /\ digit(u[1]) /\ digit(u[Len(u)])

\* C8 as stated, for the literals that start and end with a digit: a
\* radix-prefixed literal is an Integer; a decimal literal is a Float exactly
\* when it has a fractional part or an exponent part.
C8_FloatIffFractionOrExponent ==
    \A i \in 1..Len(produced) :
        (produced[i].tok.typ \in Numeric /\ DigitsAtBothEnds(Source(i))) =>
            IF RadixPrefixed(Source(i)) THEN produced[i].tok.typ = "tokInt"
            ELSE (produced[i].tok.typ = "tokFloat")
                    <=> (\E k \in 1..Len(Source(i)) : Source(i)[k] \in {c.dot, c.e, c.E})

\* C9 as stated: a lexeme that starts with '+' followed by something that is
\* not a digit gives an Identifier token whose text begins with that '+'.
C9_PlusIsIdentifier ==
    \A i \in 1..Len(produced) :
        LET f == produced[i].from
        IN  (/\ f + 1 <= Len(input)
             /\ input[f + 1] = c.plus
             /\ (f + 2 > Len(input) \/ ~digit(input[f + 2])))
            => /\ produced[i].tok.typ = "tokIdentifier"
               /\ produced[i].tok.str # <<>>
               /\ produced[i].tok.str[1] = c.plus

\* The decoding C10 states, of the interior s of a quoted string: ok is FALSE
\* when s holds an escape that C10 does not cover.
SimpleEscape == [x \in {c.n, c.r, c.t, c.backslash, c.slash, c.dquote, c.b, c.f} |->
                   IF x = c.n THEN c.lf
                   ELSE IF x = c.r THEN c.cr
                   ELSE IF x = c.t THEN c.tab
                   ELSE IF x = c.b THEN c.bs
                   ELSE IF x = c.f THEN c.ff
                   ELSE x]

IsHex(r) == digit(r) \/ (r >= c.a /\ r <= c.f) \/ (r >= c.A /\ r <= c.F)

HexDigitValue(r) ==
    IF digit(r) THEN r - c.d0 ELSE IF r >= c.a /\ r <= c.f THEN r - c.a + 10 ELSE r - c.A + 10

RECURSIVE HexValue(_)
HexValue(h) == IF h = <<>> THEN 0 ELSE 16 * HexValue(Front(h)) + HexDigitValue(Last(h))

RECURSIVE Decoded(_)
Decoded(s) ==
    IF s = <<>> THEN [ok |-> TRUE, str |-> <<>>]
    ELSE IF s[1] # c.backslash
    THEN LET d == Decoded(Tail(s)) IN [ok |-> d.ok, str |-> <<s[1]>> \o d.str]
    ELSE IF Len(s) >= 2 /\ s[2] \in DOMAIN SimpleEscape
    THEN LET d == Decoded(SubSeq(s, 3, Len(s)))
         IN  [ok |-> d.ok, str |-> <<SimpleEscape[s[2]]>> \o d.str]
    ELSE IF Len(s) >= 3 /\ s[2] = c.u /\ s[3] = c.lbrace
    THEN LET ks == {k \in 1..6 : /\ Len(s) >= 4 + k
                                 /\ \A j \in 4..(3 + k) : IsHex(s[j])
                                 /\ s[4 + k] = c.rbrace}
         IN  IF ks = {} THEN [ok |-> FALSE, str |-> <<>>]
             ELSE LET k == CHOOSE k \in ks : TRUE
                      v == HexValue(SubSeq(s, 4, 3 + k))
                      d == Decoded(SubSeq(s, 5 + k, Len(s)))
                  IN  [ok |-> d.ok /\ ValidRune(v), str |-> <<v>> \o d.str]
    ELSE [ok |-> FALSE, str |-> <<>>]

\* C10 as stated: the text of the String token of a quoted string is its
\* interior with every escape replaced by the one scalar it stands for.
C10_StringTextDecoded ==
    \A i \in 1..Len(produced) :
        (/\ produced[i].tok.typ = "tokString"
         /\ Len(Source(i)) >= 2
         /\ Source(i)[1] = c.dquote
         /\ Decoded(SubSeq(Source(i), 2, Len(Source(i)) - 1)).ok)
        => produced[i].tok.str = Decoded(SubSeq(Source(i), 2, Len(Source(i)) - 1)).str

\* the number of hex digits at the head of s
RECURSIVE HexPrefixLen(_)
HexPrefixLen(s) == IF s # <<>> /\ IsHex(s[1]) THEN 1 + HexPrefixLen(Tail(s)) ELSE 0

\* The escapes of a quoted string as C11 lists them; s is the input after
\* the opening quote.  "malformed": the first escape that is not well formed
\* is one of C11's cases; "uncovered": it has more than 6 hex digits, which
\* C11 does not list; "none": every escape up to the closing quote (or the
\* end of the input) is well formed.
RECURSIVE EscapeScan(_)
EscapeScan(s) ==
    IF s = <<>> \/ s[1] = c.dquote THEN "none"
    ELSE IF s[1] # c.backslash THEN EscapeScan(Tail(s))
    ELSE IF Len(s) = 1 THEN "malformed"
    ELSE IF s[2] \in DOMAIN SimpleEscape THEN EscapeScan(SubSeq(s, 3, Len(s)))
    ELSE IF s[2] # c.u THEN "malformed"
    ELSE IF Len(s) < 3 \/ s[3] # c.lbrace THEN "malformed"
    ELSE LET k == HexPrefixLen(SubSeq(s, 4, Len(s)))
         IN  IF Len(s) < 4 + k THEN "malformed"
             ELSE IF k > 6 THEN "uncovered"
             ELSE IF s[4 + k] # c.rbrace THEN "malformed"
             ELSE IF k = 0 THEN "malformed"
             ELSE IF HexValue(SubSeq(s, 4, 3 + k)) > c.maxRune THEN "malformed"
             ELSE EscapeScan(SubSeq(s, 5 + k, Len(s)))

\* C11 as stated: a quoted string with a malformed escape (unknown escape
\* character, \u without '{', \u{}, a non-hex scalar in the braces, end of
\* input in the escape, a value above 0x10FFFF) gives Error, never String.
C11_MalformedEscapeIsError ==
    \A i \in 1..Len(produced) :
        LET f == produced[i].from
        IN  (/\ f + 1 <= Len(input)
             /\ input[f + 1] = c.dquote
             /\ EscapeScan(SubSeq(input, f + 2, Len(input))) = "malformed")
            => produced[i].tok.typ = "tokErr"

\* the number of '#' at the head of s
RECURSIVE HashPrefixLen(_)
HashPrefixLen(s) == IF s # <<>> /\ s[1] = c.hash THEN 1 + HashPrefixLen(Tail(s)) ELSE 0

\* The raw string that starts at offset f of the input ('r' at f + 1), read
\* as C12 states it: hashes is N, open the place of the opening quote (0 when
\* it is missing), close the place of the first later quote followed by N
\* hashes (0 when there is none).
RawOpen(f) ==
    LET n == HashPrefixLen(SubSeq(input, f + 2, Len(input)))
    IN  IF f + 2 + n <= Len(input) /\ input[f + 2 + n] = c.dquote THEN f + 2 + n ELSE 0

RawClose(f) ==
    LET n  == HashPrefixLen(SubSeq(input, f + 2, Len(input)))
        ps == {p \in (RawOpen(f) + 1)..Len(input) :
                  /\ input[p] = c.dquote
                  /\ p + n <= Len(input)
                  /\ \A j \in 1..n : input[p + j] = c.hash}
    IN  IF RawOpen(f) = 0 \/ ps = {} THEN 0
        ELSE CHOOSE p \in ps : \A q \in ps : p <= q

IsRawStart(f) ==
    /\ f + 2 <= Len(input)
    /\ input[f + 1] = c.r
    /\ input[f + 2] \in {c.hash, c.dquote}

\* C12 as stated: a raw string gives one token: Error when the opening quote
\* or the terminator is missing, else String with exactly the scalars between
\* the opening quote and the terminating quote, the lexer standing right
\* after the closing hashes.
C12_RawStringText ==
    \A i \in 1..Len(produced) :
        LET f == produced[i].from
        IN  IsRawStart(f) =>
              IF RawClose(f) = 0 THEN produced[i].tok.typ = "tokErr"
              ELSE /\ produced[i].tok.typ = "tokString"
                   /\ produced[i].tok.str = SubSeq(input, RawOpen(f) + 1, RawClose(f) - 1)
                   /\ produced[i].to = RawClose(f) + (RawOpen(f) - f - 2)


\* The end of the block comment whose body starts at place i of the input,
\* read as C13 states it: depth d, "/*" and "*/" matched left to right
\* without overlap; the result is the offset after the "*/" that brings the
\* depth to 0, or -1 when the input ends first.
RECURSIVE BlockEnd(_, _)
BlockEnd(i, d) ==
    IF d = 0 THEN i - 1
    ELSE IF i > Len(input) THEN -1
    ELSE IF i < Len(input) /\ input[i] = c.star /\ input[i + 1] = c.slash
         THEN BlockEnd(i + 2, d - 1)
    ELSE IF i < Len(input) /\ input[i] = c.slash /\ input[i + 1] = c.star
         THEN BlockEnd(i + 2, d + 1)
    ELSE BlockEnd(i + 1, d)

\* the producer is about to lex a comment that opens with "/*"
AtBlockComment ==
    /\ Consumed(l) + 2 <= Len(input)
    /\ input[Consumed(l) + 1] = c.slash
    /\ input[Consumed(l) + 2] = c.star

\* C13: a step of lexComment on "/*" consumes the comment up to the "*/" that
\* brings the nesting depth from 1 to 0, adds no token and leaves the lexeme
\* buffer empty, so that no scalar of the comment can reach a later token;
\* when the input ends with depth > 0 the step produces an Error and ends the
\* machine.
C13_BlockCommentNesting ==
    [][(LexComment /\ AtBlockComment) =>
          LET e == BlockEnd(Consumed(l) + 3, 1)
          IN  IF e = -1
              THEN /\ Len(produced') = Len(produced) + 1
                   /\ Last(produced').tok.typ = "tokErr"
                   /\ st' = "nil"
              ELSE /\ produced' = produced
                   /\ pend' = <<>>
                   /\ Consumed(l') = e
                   /\ l'.rs = <<>>
                   /\ st' = "lexSpace"]_vars

\* "/*/**/*/" has been consumed whole as one comment, and no token was produced
C13_Witness ==
    /\ input = <<c.slash, c.star, c.slash, c.star, c.star, c.slash, c.star, c.slash>>
    /\ st = "lexSpace"
    /\ Consumed(l) = 8
    /\ l.rs = <<>>
    /\ produced = <<>>


\* the input opens with a space and a backslash
AtContinuation == Len(input) >= 3 /\ input[1] = c.sp /\ input[2] = c.backslash

\* C14 as stated, with a digit for the scalar that follows: a whitespace run
\* with a line continuation gives a Space token and not a Newline for the
\* escaped line break; a backslash followed by neither whitespace, a comment
\* nor a newline gives Error.
C14_ContinuationIsSpace ==
    (AtContinuation /\ produced # <<>>) =>
        IF input[3] = c.lf
        THEN (Len(input) >= 4 /\ digit(input[4])) => produced[1].tok.typ = "tokSpace"
        ELSE input[3] \notin {c.sp, c.slash} => produced[1].tok.typ = "tokErr"


\* the newline set and the whitespace set as C16 lists them
newlineSet == {c.lf, c.cr, c.nel, c.ff, c.ls, c.ps}

\* the input opens with a line comment
AtLineComment == Len(input) >= 2 /\ input[1] = c.slash /\ input[2] = c.slash

\* the places of the newline scalars after the "//" that opens the input
LineEnds == {k \in 3..Len(input) : input[k] \in newlineSet}

\* C15 as stated: a line comment gives no token for its text; ended by a
\* newline, the first token is the Newline and no text of a later token
\* reaches back into the comment; run to the end of the input, the producer
\* ends with no token at all (End, no Error).
C15_LineCommentDiscarded ==
    AtLineComment =>
        IF LineEnds = {}
        THEN produced = <<>>
        ELSE /\ prod = "done" => produced # <<>>
             /\ produced # <<>> => produced[1].tok.typ = "tokNewline"
             /\ \A i \in 2..Len(produced) :
                    /\ produced[i].from >= CHOOSE k \in LineEnds : \A j \in LineEnds : k <= j
                    /\ produced[i].tok.typ = "tokIdentifier" => produced[i].tok.str = Source(i)


whitespaceSet == {c.tab, c.sp, c.nbsp, 5760, 8239, 8287, 12288} \cup (8192..8202)

reservedSet == {c.backslash, c.slash, c.lt, c.gt, c.lbrace, c.rbrace,
                c.semicolon, c.equal, c.comma, c.dquote}

\* isIdentifierScalar as C16 states it
isIdentifierScalar(r) ==
    /\ r >= 32 /\ r <= c.maxRune
    /\ r \notin newlineSet \cup whitespaceSet
    /\ r \notin reservedSet

\* the scalars the classifier is probed with: the two sets, the reserved
\* punctuation, the ends of the range, and letters and digits
ProbeRunes == newlineSet \cup whitespaceSet \cup reservedSet
              \cup {0, 31, 33, c.d0, c.a, c.runeSelf, 12289, c.maxRune, c.maxRune + 1}

\* C16 as stated: the classifier is isIdentifierScalar; an input that is one
\* newline scalar gives a Newline token and one that is a whitespace scalar
\* gives a Space token; no Identifier lexed from the start of the input has a
\* whitespace or newline scalar in its text.
C16_Classification ==
    /\ \A r \in ProbeRunes : identifierCharacter(r) <=> isIdentifierScalar(r)
    /\ (Len(input) = 1 /\ produced # <<>>) =>
          /\ input[1] \in newlineSet => produced[1].tok.typ = "tokNewline"
          /\ input[1] \in whitespaceSet => produced[1].tok.typ = "tokSpace"
    /\ \A i \in 1..Len(produced) :
          (produced[i].from = 0 /\ produced[i].tok.typ = "tokIdentifier") =>
              \A j \in 1..Len(produced[i].tok.str) :
                  produced[i].tok.str[j] \notin newlineSet \cup whitespaceSet


\* C17 as stated: a discarded block comment resets the last-token-was-space
\* flag, so the flag is false when the Space state runs after the comment.
C17_CommentResetsFlag ==
    [][(LexComment /\ AtBlockComment /\ st' = "lexSpace") => ~l'.lastWasSpace]_vars

\* C17 amended: a discarded block comment leaves the last-token-was-space
\* flag as it was, so a Space after "Space, comment" is coalesced with the
\* Space before the comment.
C17_CommentKeepsFlag ==
    [][(LexComment /\ AtBlockComment /\ st' = "lexSpace")
          => l'.lastWasSpace = l.lastWasSpace]_vars

\* " /**/ " has been lexed to its end: one Space was produced, the second
\* was discarded with the flag still set
C17_Witness ==
    /\ input = <<c.sp, c.slash, c.star, c.star, c.slash, c.sp>>
    /\ st = "nil"
    /\ Consumed(l) = 6
    /\ l.lastWasSpace
    /\ Len(produced) = 1
    /\ produced[1].tok.typ = "tokSpace"


\* C18 as stated: whenever the producer is about to run the Any state, the
\* lexeme buffer is empty; so the text of an Identifier is the run of
\* scalars consumed from its first scalar on.
C18_BufferEmptyAtAny ==
    /\ (prod = "run" /\ st = "lexAny" /\ pend = <<>>) => l.rs = <<>>
    /\ \A i \in 1..Len(produced) :
           produced[i].tok.typ = "tokIdentifier" => produced[i].tok.str = Source(i)


\* C19: the producer never hits a fatal condition: no backup() on an empty
\* buffer away from the end of the input, no lexComment without its slash,
\* no slice of the buffer out of bounds (each of these sets l.panic, and the
\* producer then ends as "crashed").
C19_NoFatalCondition == ~l.panic /\ prod # "crashed"

\* the tightest slices have been taken and the end of the input was peeked
\* at: `""` gave a String with the empty text rs[1:1], and the producer has
\* returned
C19_Witness ==
    /\ input = <<c.dquote, c.dquote>>
    /\ prod = "done"
    /\ l.atEOF
    /\ Len(produced) = 1
    /\ produced[1].tok = token("tokString", <<>>)


\* a pull has returned End
EndPulled == \E i \in 1..Len(got) : got[i] = zeroToken

\* C20 as stated: each state transition consumes at least one scalar or ends
\* the machine.
C20_EveryStepConsumes ==
    [][LexStep => (Consumed(l') > Consumed(l) \/ st' = "nil")]_vars

\* C20 amended: a state transition may consume nothing, but between two
\* entries of the Any state at least one scalar is consumed, and no more
\* tokens are produced than the input has scalars; so, the consumer pulling
\* on, the producer returns and a pull returns End.
C20_Terminates ==
    /\ [][(LexAny /\ l.off > 0) => Consumed(l) > from]_vars
    /\ [](Len(produced) <= Len(input))
    /\ <>(prod = "done" /\ EndPulled)


\* `"a"r#""#` has been lexed and pulled to its end without a shutdown: two
\* String tokens, then End, the producer having returned
C20_Witness ==
    /\ input = <<c.dquote, c.a, c.dquote, c.r, c.hash, c.dquote, c.dquote, c.hash>>
    /\ ~closeClosed
    /\ prod = "done"
    /\ got = <<token("tokString", <<c.a>>), token("tokString", <<>>), zeroToken>>

=============================================================================
